---- MODULE Spec2Model ----
(***************************************************************************)
(* A model of roast (mise-java), the JVM release crawler:                  *)
(*   - cli/fetch.rs           Fetch::run, the orchestrator (SpecFetch)     *)
(*   - cli/export/vendor.rs   export::Vendor::run (SpecExport)             *)
(*   - jvm/vendor/oracle.rs, jvm/vendor/liberica_nik.rs                    *)
(*                            the two source adapters (SpecAdapter)        *)
(* Text is modelled as sequences of one-character strings, so that         *)
(* contains, replace, split and the regular expressions are computed.      *)
(***************************************************************************)
EXTENDS Integers, Sequences, FiniteSets, TLC

\* ------------------------------------------------------------------ bounds
\* The longest list of vendor names given on the fetch command line.
MaxRequested == 3
\* The most records one vendor's fetch returns.
MaxRecords == 1
\* The most oracle listing requests answered with a page that holds anchors.
MaxPages == 1
\* The most releases the liberica-nik API returns.
MaxReleases == 2
\* The longest version listing given to replace_with_latest_version.
MaxVersions == 2
\* The longest list of values given for one dimension of the export.
MaxSelected == 1

\* ------------------------------------------------------------------ state
\* cli/fetch.rs, Fetch::run
VARIABLES
    vendors,     \* Fetch.vendors: the requested vendor names
    fpc,         \* position of Fetch::run
    result,      \* what Fetch::run returned: "none" while running, "Ok", "Err"
    unsent,      \* entries of get_vendors() the for loop has not sent yet
    chan,        \* the unbounded channel (tx, rx): names in flight
    txOpen,      \* tx has not been dropped
    task,        \* position of the task spawned for each name
    spawned,     \* how many tasks s.spawn was called with for each name
    jvm_data,    \* the record set vendor.fetch() returned to each task
    store,       \* the records db.insert has written in this run
    log,         \* the error!/info! lines written, as <<name, line>>
    steps,       \* the calls each task has made, in order
    given,       \* the record set each task passed to db.insert
    failedAt,    \* the number of calls a task had made when one failed, 0 if none
    conn_pool,   \* ConnectionPool::get_pool() has returned the pool
    pool         \* the rayon thread pool has been built

fetchVars == <<vendors, fpc, result, unsent, chan, txOpen, task, spawned,
               jvm_data, store, log, steps, given, failedAt, conn_pool, pool>>

\* jvm/vendor/oracle.rs and liberica_nik.rs, Vendor::fetch_data
VARIABLES
    adapter,     \* the vendor whose fetch_data runs: "oracle" or "liberica-nik"
    apc,         \* position of fetch_data
    url,         \* oracle: the index in build_urls() of the next listing request
    pages,       \* oracle: how many listing requests were answered with anchors
    answered,    \* how many listing requests were answered (Ok)
    anchors,     \* oracle: the anchors collected from the listings
    releases,    \* liberica-nik: the releases the API returned
    idx,         \* the index of the next anchor / release to map
    data,        \* the records collected by flat_map
    origin,      \* for each record of data: the item it comes from and the
                 \* answer to the request for its .sha256 file
    jvm_set,     \* the HashSet<JvmData> fetch_data extends
    fres,        \* what fetch_data returned: "none" while running, "Ok", "Err"
    warned       \* the indexes of the items a warn! line was written for

adapterVars == <<adapter, apc, url, pages, answered, anchors, releases, idx,
                 data, origin, jvm_set, fres, warned>>

\* oracle.rs, replace_with_latest_version applied to one anchor
VARIABLES
    arg_anchor,      \* the anchor given
    arg_versions,    \* the version listing given
    resolved         \* the anchor after the call, None before it

aliasVars == <<arg_anchor, arg_versions, resolved>>

\* cli/export/vendor.rs, export::Vendor::run
VARIABLES
    opts,        \* the command's options (the fields of Vendor)
    conf_path,   \* conf.export.path
    xpc,         \* position of Vendor::run
    xres,        \* what Vendor::run returned: "none" while running, "Ok", "Err"
    sel,         \* the vendors, oses and archs the loops iterate over
    at,          \* the loop indexes <<vendor, os, arch>> of the next partition
    files,       \* the files this run has created: path |-> content
    written,     \* the paths File::create was called with, in order
    storeErrAt   \* Len(written) when a store call failed, -1 while none has

exportVars == <<opts, conf_path, xpc, xres, sel, at, files, written, storeErrAt>>

\* oracle.rs, meta_from_name applied to one file name
VARIABLES
    arg_name,    \* the name given
    meta         \* what the call returned, None before it

metaVars == <<arg_name, meta>>

vars == <<fetchVars, adapterVars, aliasVars, exportVars, metaVars>>

\* ------------------------------------------------------- generic helpers
Range(s) == {s[i] : i \in 1..Len(s)}

SeqsUpTo(S, n) == UNION {[1..k -> S] : k \in 0..n}

IsPrefix(s, t) == Len(s) <= Len(t) /\ \A i \in 1..Len(s) : s[i] = t[i]

\* ---------------------------------------------------------------- text
\* A str is a sequence of one-character strings.
RECURSIVE Cat(_)
Cat(parts) == IF parts = <<>> THEN <<>> ELSE Head(parts) \o Cat(Tail(parts))

\* pat occurs in s at index i
MatchesAt(s, pat, i) ==
    /\ i >= 1
    /\ i + Len(pat) - 1 <= Len(s)
    /\ \A k \in 1..Len(pat) : s[i + k - 1] = pat[k]

\* str::contains, str::starts_with, str::ends_with
contains(s, pat) == \E i \in 1..(Len(s) + 1) : MatchesAt(s, pat, i)

starts_with(s, pat) == MatchesAt(s, pat, 1)

ends_with(s, pat) == MatchesAt(s, pat, Len(s) - Len(pat) + 1)

\* str::replace(from, to), for a non-empty `from`: every non-overlapping
\* occurrence, left to right.
RECURSIVE replace(_, _, _)
replace(s, from, to) ==
    LET hits == {i \in 1..Len(s) : MatchesAt(s, from, i)} IN
    IF hits = {} THEN s
    ELSE LET i == CHOOSE x \in hits : \A y \in hits : x <= y IN
         SubSeq(s, 1, i - 1) \o to
             \o replace(SubSeq(s, i + Len(from), Len(s)), from, to)

\* The indexes of the character c in s
IndexesOf(s, c) == {i \in 1..Len(s) : s[i] = c}

Min(S) == CHOOSE x \in S : \A y \in S : x <= y

Max(S) == CHOOSE x \in S : \A y \in S : x >= y

\* s.split(c).next(): the text before the first c (all of s without a c)
split_next(s, c) ==
    IF IndexesOf(s, c) = {} THEN s ELSE SubSeq(s, 1, Min(IndexesOf(s, c)) - 1)

\* s.split(c).last(): the text after the last c (all of s without a c)
split_last(s, c) ==
    IF IndexesOf(s, c) = {} THEN s ELSE SubSeq(s, Max(IndexesOf(s, c)) + 1, Len(s))

\* s.split_whitespace().next(): the first run of non-blank characters, if any
split_whitespace_next(s) ==
    LET starts == {i \in 1..Len(s) : s[i] # " "} IN
    IF starts = {} THEN <<>>
    ELSE LET b == Min(starts)
             stops == {j \in b..Len(s) : j = Len(s) \/ s[j + 1] = " "}
         IN SubSeq(s, b, Min(stops))

\* Option<T> and Result<T>
None == [some |-> FALSE]

Some(x) == [some |-> TRUE, value |-> x]

Err == [ok |-> FALSE]

Ok(x) == [ok |-> TRUE, value |-> x]

Digits == {"0", "1", "2", "3", "4", "5", "6", "7", "8", "9"}

\* All the orders a set can be listed in.
Perms(S) ==
    {f \in [1..Cardinality(S) -> S] : \A i, j \in 1..Cardinality(S) : f[i] = f[j] => i = j}

\* ------------------------------------------------------------ idle parts
\* Each specification runs one part of the program; the others stay idle.
FetchIdle ==
    /\ vendors = <<>> /\ fpc = "off" /\ result = "none" /\ unsent = {}
    /\ chan = <<>> /\ txOpen = FALSE /\ task = <<>> /\ spawned = <<>>
    /\ jvm_data = <<>> /\ store = {} /\ log = {} /\ steps = <<>>
    /\ given = <<>> /\ failedAt = <<>> /\ conn_pool = FALSE /\ pool = FALSE

AdapterIdle ==
    /\ adapter = "off" /\ apc = "off" /\ url = 0 /\ pages = 0 /\ answered = 0
    /\ anchors = <<>> /\ releases = <<>> /\ idx = 0 /\ data = <<>> /\ origin = <<>>
    /\ jvm_set = {} /\ fres = "none" /\ warned = {}

AliasIdle == arg_anchor = None /\ arg_versions = <<>> /\ resolved = None

MetaIdle == arg_name = <<>> /\ meta = None

ExportIdle ==
    /\ opts = None /\ conf_path = None /\ xpc = "off" /\ xres = "none"
    /\ sel = None /\ at = <<>> /\ files = <<>> /\ written = <<>> /\ storeErrAt = -1

\* ================================================================ fetch.rs
\* The registry jvm::vendor::VENDORS: the two adapters of this model and a
\* third registered vendor (fetch.rs names zulu in its help text).
VENDORS == <<"liberica-nik", "oracle", "zulu">>

\* v.get_name() of every registered vendor
Registered == Range(VENDORS)

\* Names a user may type: registered ones and one that is not registered.
Names == Registered \cup {"unknown"}

\* The records vendor `name` may publish.
RecordsOf(name) == {<<name, i>> : i \in 1..MaxRecords}

\* Fetch::get_vendors: the registry filtered by the requested names, collected
\* into a HashMap keyed by name (so: a set of names).
get_vendorsNoFilter(requested) == Range(requested)

get_vendors(requested) ==
    {k \in Registered : requested = <<>> \/ k \in Range(requested)}

\* ConnectionPool::get_pool()? and ThreadPoolBuilder::build()? : either may fail,
\* and `?` returns the error before anything is dispatched.
GetPool ==
    /\ fpc = "start"
    /\ \/ fpc' = "build" /\ conn_pool' = TRUE /\ UNCHANGED result
       \/ fpc' = "done" /\ result' = "Err" /\ UNCHANGED conn_pool
    /\ UNCHANGED <<vendors, unsent, chan, txOpen, task, spawned, jvm_data,
                   store, log, steps, given, failedAt, pool>>
    /\ UNCHANGED <<adapterVars, aliasVars, exportVars, metaVars>>

BuildPool ==
    /\ fpc = "build"
    /\ \/ /\ fpc' = "send"
          /\ pool' = TRUE
          /\ unsent' = get_vendors(vendors)
          /\ UNCHANGED result
       \/ fpc' = "done" /\ result' = "Err" /\ UNCHANGED <<unsent, pool>>
    /\ UNCHANGED <<vendors, chan, txOpen, task, spawned, jvm_data,
                   store, log, steps, given, failedAt, conn_pool>>
    /\ UNCHANGED <<adapterVars, aliasVars, exportVars, metaVars>>

\* for (name, vendor) in self.get_vendors() { tx.send(..) }: HashMap iteration
\* order is unspecified.
Send(name) ==
    /\ fpc = "send"
    /\ name \in unsent
    /\ unsent' = unsent \ {name}
    /\ chan' = Append(chan, name)
    /\ UNCHANGED <<vendors, fpc, result, txOpen, task, spawned, jvm_data,
                   store, log, steps, given, failedAt, conn_pool, pool>>
    /\ UNCHANGED <<adapterVars, aliasVars, exportVars, metaVars>>

\* drop(tx)
DropTx ==
    /\ fpc = "send"
    /\ unsent = {}
    /\ txOpen' = FALSE
    /\ fpc' = "recv"
    /\ UNCHANGED <<vendors, result, unsent, chan, task, spawned, jvm_data,
                   store, log, steps, given, failedAt, conn_pool, pool>>
    /\ UNCHANGED <<adapterVars, aliasVars, exportVars, metaVars>>

\* recv(rx) -> Ok((name, vendor)) => run(name, vendor): s.spawn of the task
Recv ==
    /\ fpc = "recv"
    /\ chan # <<>>
    /\ LET name == Head(chan) IN
          /\ chan' = Tail(chan)
          /\ spawned' = [spawned EXCEPT ![name] = @ + 1]
          /\ task' = [task EXCEPT ![name] = "connect"]
    /\ UNCHANGED <<vendors, fpc, result, unsent, txOpen, jvm_data,
                   store, log, steps, given, failedAt, conn_pool, pool>>
    /\ UNCHANGED <<adapterVars, aliasVars, exportVars, metaVars>>

\* recv(rx) -> Err(_) => break: the channel is empty and tx is dropped
RecvClosed ==
    /\ fpc = "recv"
    /\ chan = <<>>
    /\ ~txOpen
    /\ fpc' = "join"
    /\ UNCHANGED <<vendors, result, unsent, chan, txOpen, task, spawned, jvm_data,
                   store, log, steps, given, failedAt, conn_pool, pool>>
    /\ UNCHANGED <<adapterVars, aliasVars, exportVars, metaVars>>

\* The info! line a task writes before the call it is about to make.
InfoBefore(name) ==
    CASE task[name] = "fetch" -> {<<name, "fetching meta data">>}
      [] task[name] = "insert" -> {<<name, "writing to database">>}
      [] OTHER -> {}

\* A failing step that ends every task, not only its own.
FailAll(name, line) ==
    /\ log' = log \cup InfoBefore(name) \cup {<<name, line>>}
    /\ failedAt' = [failedAt EXCEPT ![name] = Len(steps'[name])]
    /\ task' = [n \in Names |-> IF task[n] = "idle" THEN "idle" ELSE "end"]

\* A failing step without the return: the task goes on to its next call.
FailContinue(name, line) ==
    /\ log' = log \cup InfoBefore(name) \cup {<<name, line>>}
    /\ failedAt' = [failedAt EXCEPT ![name] = Len(steps'[name])]
    /\ task' = [task EXCEPT ![name] =
                  CASE @ = "connect" -> "fetch"
                    [] @ = "fetch" -> "insert"
                    [] OTHER -> "end"]

\* A failing step: error!("[{name}] failed to ...") and return.
Fail(name, line) ==
    /\ log' = log \cup InfoBefore(name) \cup {<<name, line>>}
    /\ failedAt' = [failedAt EXCEPT ![name] = Len(steps'[name])]
    /\ task' = [task EXCEPT ![name] = "end"]

\* JvmRepository::new(conn_pool)
Connect(name) ==
    /\ task[name] = "connect"
    /\ steps' = [steps EXCEPT ![name] = Append(@, "connect")]
    /\ \/ /\ task' = [task EXCEPT ![name] = "fetch"]
          /\ UNCHANGED <<log, failedAt>>
       \/ Fail(name, "failed to connect to database")
    /\ UNCHANGED <<vendors, fpc, result, unsent, chan, txOpen, spawned, jvm_data,
                   store, given, conn_pool, pool>>
    /\ UNCHANGED <<adapterVars, aliasVars, exportVars, metaVars>>

\* vendor.fetch()
FetchData(name) ==
    /\ task[name] = "fetch"
    /\ steps' = [steps EXCEPT ![name] = Append(@, "fetch")]
    /\ \/ \E fetched \in SUBSET RecordsOf(name) :
             /\ jvm_data' = [jvm_data EXCEPT ![name] = fetched]
             /\ task' = [task EXCEPT ![name] = "insert"]
             /\ log' = log \cup InfoBefore(name)
             /\ UNCHANGED failedAt
       \/ /\ Fail(name, "failed to fetch meta data")
          /\ UNCHANGED jvm_data
    /\ UNCHANGED <<vendors, fpc, result, unsent, chan, txOpen, spawned,
                   store, given, conn_pool, pool>>
    /\ UNCHANGED <<adapterVars, aliasVars, exportVars, metaVars>>

\* What a successful db.insert(&jvm_data) leaves in the store.
InsertedOverwrite(name) == jvm_data[name]

Inserted(name) == store \cup jvm_data[name]

\* db.insert(&jvm_data)
Insert(name) ==
    /\ task[name] = "insert"
    /\ steps' = [steps EXCEPT ![name] = Append(@, "insert")]
    /\ given' = [given EXCEPT ![name] = jvm_data[name]]
    /\ \/ /\ store' = Inserted(name)
          /\ log' = log \cup InfoBefore(name)
                        \cup {<<name, "inserted/modified records">>}
          /\ task' = [task EXCEPT ![name] = "end"]
          /\ UNCHANGED failedAt
       \/ /\ Fail(name, "failed to write to database")
          /\ UNCHANGED store
    /\ UNCHANGED <<vendors, fpc, result, unsent, chan, txOpen, spawned, jvm_data, conn_pool, pool>>
    /\ UNCHANGED <<adapterVars, aliasVars, exportVars, metaVars>>

\* pool.scope returns once the closure and every task spawned in it are done.
ScopeJoinedEarly == TRUE

ScopeJoined == \A name \in Names : task[name] \in {"idle", "end"}

\* The end of pool.scope, info!("fetched all vendors ..") and Ok(())
Return ==
    /\ fpc = "join"
    /\ ScopeJoined
    /\ fpc' = "done"
    /\ result' = "Ok"
    /\ UNCHANGED <<vendors, unsent, chan, txOpen, task, spawned, jvm_data,
                   store, log, steps, given, failedAt, conn_pool, pool>>
    /\ UNCHANGED <<adapterVars, aliasVars, exportVars, metaVars>>

FetchInit ==
    /\ vendors \in SeqsUpTo(Names, MaxRequested)
    /\ fpc = "start"
    /\ result = "none"
    /\ unsent = {}
    /\ chan = <<>>
    /\ txOpen = TRUE
    /\ task = [name \in Names |-> "idle"]
    /\ spawned = [name \in Names |-> 0]
    /\ jvm_data = [name \in Names |-> {}]
    /\ store = {}
    /\ log = {}
    /\ steps = [name \in Names |-> <<>>]
    /\ given = [name \in Names |-> {}]
    /\ failedAt = [name \in Names |-> 0]
    /\ conn_pool = FALSE
    /\ pool = FALSE

FetchNext ==
    \/ GetPool
    \/ BuildPool
    \/ \E name \in Names : Send(name)
    \/ DropTx
    \/ Recv
    \/ RecvClosed
    \/ \E name \in Names : Connect(name)
    \/ \E name \in Names : FetchData(name)
    \/ \E name \in Names : Insert(name)
    \/ Return

InitFetch == FetchInit /\ AdapterIdle /\ AliasIdle /\ ExportIdle /\ MetaIdle

SpecFetch == InitFetch /\ [][FetchNext]_vars

\* ------------------------------------------------------- fetch.rs: claims
TheSteps == <<"connect", "fetch", "insert">>

\* The error! line of each call, by its position in TheSteps.
ErrorLine(i) ==
    CASE i = 1 -> "failed to connect to database"
      [] i = 2 -> "failed to fetch meta data"
      [] OTHER -> "failed to write to database"

Running(name) == task[name] \in {"connect", "fetch", "insert"}

\* The task of `name` has ended and none of its own calls failed.
Succeeded(name) == task[name] = "end" /\ failedAt[name] = 0

\* C1: whatever the other tasks did, a task that is not finished can always
\* take its next step; a task that ended without a failure of its own has
\* made its three calls and its records are in the store; no record of a
\* source whose connect or fetch failed is in the store.
C1_FailureIsolation ==
    /\ \A name \in Names :
          Running(name) => ENABLED (Connect(name) \/ FetchData(name) \/ Insert(name))
    /\ \A name \in Names :
          Succeeded(name) => steps[name] = TheSteps /\ jvm_data[name] \subseteq store
    /\ \A name \in Names :
          failedAt[name] \in {1, 2} => \A r \in store : r[1] # name

\* Three sources ran, exactly one failed in fetch, the run returned and the
\* store holds exactly the (non-empty) record sets of the other two.
C1_Witness ==
    /\ result = "Ok"
    /\ \E bad \in Registered :
          /\ failedAt[bad] = 2
          /\ \A name \in Registered \ {bad} :
                Succeeded(name) /\ jvm_data[name] = RecordsOf(name)
          /\ store = UNION {RecordsOf(name) : name \in Registered \ {bad}}

\* C2: Fetch::run has returned only if the channel is drained and every
\* spawned task has ended, and once both pools exist it returns Ok, however
\* many tasks failed.
C2_ReturnsAfterAllTasks ==
    result # "none" =>
        /\ unsent = {} /\ chan = <<>>
        /\ \A name \in Names : ~Running(name)
        /\ (conn_pool /\ pool) => result = "Ok"

\* Every registered source was dispatched, every task failed, the run
\* returned Ok.
C2_Witness ==
    /\ result = "Ok"
    /\ \A name \in Registered : spawned[name] = 1 /\ failedAt[name] > 0

\* C3: a name never gets a second task, and once the receive loop has ended
\* exactly the registered names that were requested (all registered names
\* when nothing was requested) have got one; a run that fails before the
\* dispatch has spawned nothing.
C3_OneTaskPerSelected ==
    /\ \A name \in Names : spawned[name] <= 1
    /\ \A name \in Names : spawned[name] = 1 =>
          name \in Registered /\ (vendors = <<>> \/ name \in Range(vendors))
    /\ fpc \in {"join", "done"} /\ result # "Err" =>
          \A name \in Registered :
             (vendors = <<>> \/ name \in Range(vendors)) => spawned[name] = 1

\* A run whose request repeats a registered name and holds an unregistered
\* one has returned Ok.
C3_Witness ==
    /\ result = "Ok"
    /\ Len(vendors) = 3
    /\ vendors[1] = vendors[2] /\ vendors[1] \in Registered
    /\ vendors[3] \notin Registered
    /\ spawned[vendors[1]] = 1

\* C4: the calls of a task are a prefix of connect, fetch, insert; insert is
\* given the record set fetch returned; a failed call is the task's last
\* call, and its error line, which names the source, is in the log.
C4_StepsArePrefix ==
    \A name \in Names :
        /\ IsPrefix(steps[name], TheSteps)
        /\ Len(steps[name]) = 3 => given[name] = jvm_data[name]
        /\ failedAt[name] > 0 =>
              /\ Len(steps[name]) = failedAt[name]
              /\ task[name] = "end"
              /\ <<name, ErrorLine(failedAt[name])>> \in log

\* One task failed in connect, one in fetch and one in insert, and the run
\* has returned.
C4_Witness ==
    /\ result = "Ok"
    /\ \E a, b, c \in Registered :
          failedAt[a] = 1 /\ failedAt[b] = 2 /\ failedAt[c] = 3

\* ========================================================= jvm/vendor (mod)
\* normalize_os, normalize_architecture, normalize_version: mapping tables,
\* unknown tokens pass through unchanged.
normalize_os(raw) ==
    CASE raw = <<"m", "a", "c", "o", "s">> -> <<"m", "a", "c", "o", "s", "x">>
      [] OTHER -> raw

normalize_architecture(raw) ==
    CASE raw = <<"x", "6", "4">> -> <<"x", "8", "6", "_", "6", "4">>
      [] raw = <<"a", "m", "d", "6", "4">> -> <<"x", "8", "6", "_", "6", "4">>
      [] OTHER -> raw

normalize_version(raw) == raw

\* The extensions the oracle selector asks anchors_from_doc for.
Extensions == {<<"d", "e", "p">>, <<"d", "m", "g">>, <<"e", "x", "e">>, <<"m", "s", "i">>,
        <<"r", "p", "m">>, <<"t", "a", "r", ".", "g", "z">>, <<"z", "i", "p">>}

\* anchors_from_doc(document, "a:is([href$='.dep'], ...)"): the anchors of the
\* document whose href ends with one of the extensions, in document order.
anchors_from_doc(document) ==
    SelectSeq(document.anchors,
              LAMBDA a : \E ext \in Extensions : ends_with(a.href, <<".">> \o ext))

\* ============================================================== oracle.rs
\* build_urls: the downloads page and the archive pages of 17..=23
build_urls == <<"downloads">> \o [i \in 1..7 |-> "archive"]

\* The end of a run of digits that starts at i (i - 1 when s[i] is no digit)
DigitsEnd(s, i) ==
    LET stops == {j \in (i - 1)..Len(s) :
                    /\ \A k \in i..j : s[k] \in Digits
                    /\ (j = Len(s) \/ s[j + 1] \notin Digits)}
    IN Min(stops)

\* The end of a match of \d+\.\d+\.\d+ that starts at i, 0 when there is none
VersionEnd(s, i) ==
    LET a == DigitsEnd(s, i) IN
    IF a < i \/ a + 1 > Len(s) \/ s[a + 1] # "." THEN 0
    ELSE LET b == DigitsEnd(s, a + 2) IN
         IF b < a + 2 \/ b + 1 > Len(s) \/ s[b + 1] # "." THEN 0
         ELSE LET c == DigitsEnd(s, b + 2) IN
              IF c < b + 2 THEN 0 ELSE c

\* re.captures_iter(text): the non-overlapping matches from index i on
RECURSIVE captures_iter(_, _)
captures_iter(s, i) ==
    IF i > Len(s) THEN {}
    ELSE IF VersionEnd(s, i) > 0
         THEN {SubSeq(s, i, VersionEnd(s, i))} \cup captures_iter(s, VersionEnd(s, i) + 1)
         ELSE captures_iter(s, i + 1)

\* extract_latest_versions: the versions in the h3[id^='java'] headings, as a
\* HashSet; its listing order (versions.into_iter().collect()) is any order.
extract_latest_versions(document) ==
    UNION {captures_iter(document.h3[i], 1) : i \in 1..Len(document.h3)}

\* v.split('.').next().unwrap_or("")
major(v) == split_next(v, ".")

\* replace_with_latest_version: the anchor as the function leaves it
replace_with_latest_version(anchor, latest_versions) ==
    IF contains(anchor.href, <<"/", "l", "a", "t", "e", "s", "t", "/">>)
    THEN LET found == {i \in 1..Len(latest_versions) :
                         contains(anchor.name, major(latest_versions[i]))}
         IN IF found = {} THEN anchor
            ELSE LET v == latest_versions[Min(found)] IN
                 [anchor EXCEPT !.name =
                     replace(@, Cat(<<<<"j", "d", "k", "-">>, major(v), <<"_">>>>),
                                Cat(<<<<"j", "d", "k", "-">>, v, <<"_">>>>))]
    ELSE anchor

OracleOs == {<<"l", "i", "n", "u", "x">>, <<"m", "a", "c", "o", "s">>, <<"w", "i", "n", "d",
        "o", "w", "s">>}

OracleArch == {<<"x", "6", "4">>, <<"a", "a", "r", "c", "h", "6", "4">>}

\* meta_from_name with a platform token the pattern does not list accepted
\* and reported as "unknown".
oracle_meta_from_name_lenient(name) ==
    IF ~starts_with(name, <<"j", "d", "k", "-">>) THEN Err
    ELSE LET class == Digits \cup {"+", "."}
             ends == {j \in 4..Len(name) :
                        /\ \A k \in 5..j : name[k] \in class
                        /\ (j = Len(name) \/ name[j + 1] \notin class)}
             e == Min(ends)
             rest == SubSeq(name, e + 1, Len(name))
             oses == OracleOs \cup {<<"u", "n", "k", "n", "o", "w", "n">>}
             archs == OracleArch \cup {<<"u", "n", "k", "n", "o", "w", "n">>}
             fits == {m \in oses \X archs \X Extensions :
                        rest = Cat(<<<<"_">>, m[1], <<"-">>, m[2], <<"_", "b", "i", "n",
                                ".">>, m[3]>>)}
         IN IF e - 4 < 2 \/ fits = {} THEN Err
            ELSE LET m == CHOOSE m \in fits : TRUE IN
                 Ok([arch |-> m[2], ext |-> m[3], os |-> m[1],
                     version |-> SubSeq(name, 5, e)])

\* meta_from_name (oracle):
\* ^jdk-([0-9+.]{2,})_(linux|macos|windows)-(x64|aarch64)_bin\.(dep|..|zip)$
oracle_meta_from_name(name) ==
    IF ~starts_with(name, <<"j", "d", "k", "-">>) THEN Err
    ELSE LET class == Digits \cup {"+", "."}
             ends == {j \in 4..Len(name) :
                        /\ \A k \in 5..j : name[k] \in class
                        /\ (j = Len(name) \/ name[j + 1] \notin class)}
             e == Min(ends)
             rest == SubSeq(name, e + 1, Len(name))
             fits == {m \in OracleOs \X OracleArch \X Extensions :
                        rest = Cat(<<<<"_">>, m[1], <<"-">>, m[2], <<"_", "b", "i", "n",
                                ".">>, m[3]>>)}
         IN IF e - 4 < 2 \/ fits = {} THEN Err
            ELSE LET m == CHOOSE m \in fits : TRUE IN
                 Ok([arch |-> m[2], ext |-> m[3], os |-> m[1],
                     version |-> SubSeq(name, 5, e)])

\* map_release (oracle), given the answer of HTTP.get_text(sha256_url)
oracle_map_release(a, sha_response) ==
    LET name == split_last(a.name, "/")
        filename_meta == oracle_meta_from_name(name)
        sha256_url == a.href \o <<".", "s", "h", "a", "2", "5", "6">>
        sha256 == IF sha_response.ok
                  THEN LET s == split_whitespace_next(sha_response.value) IN
                       IF s = <<>> THEN None ELSE Some(<<"s", "h", "a", "2", "5", "6",
                               ":">> \o s)
                  ELSE None
    IN IF ~filename_meta.ok THEN Err
       ELSE Ok([architecture |-> normalize_architecture(filename_meta.value.arch),
                checksum |-> sha256,
                checksum_url |-> Some(sha256_url),
                features |-> None,
                filename |-> name,
                file_type |-> filename_meta.value.ext,
                image_type |-> <<"j", "d", "k">>,
                java_version |-> normalize_version(filename_meta.value.version),
                jvm_impl |-> <<"h", "o", "t", "s", "p", "o", "t">>,
                os |-> normalize_os(filename_meta.value.os),
                release_type |-> <<"g", "a">>,
                size |-> None,
                url |-> a.href,
                version |-> normalize_version(filename_meta.value.version),
                vendor |-> <<"o", "r", "a", "c", "l", "e">>])

\* ========================================================= liberica_nik.rs
LibericaExt == {<<"a", "p", "k">>, <<"d", "e", "b">>, <<"d", "m", "g">>, <<"m", "s", "i">>,
        <<"p", "k", "g">>, <<"r", "p", "m">>, <<"t", "a", "r", ".", "g", "z">>, <<"z", "i",
        "p">>}

\* ^bellsoft-liberica-vm(?:-core|-full)?-openjdk
LibericaPrefix ==
    {<<"b", "e", "l", "l", "s", "o", "f", "t", "-", "l", "i", "b", "e", "r", "i", "c", "a",
            "-", "v", "m", "-", "c", "o", "r", "e", "-", "o", "p", "e", "n", "j", "d", "k">>,
            <<"b", "e", "l", "l", "s", "o", "f", "t", "-", "l", "i", "b", "e", "r", "i", "c",
            "a", "-", "v", "m", "-", "f", "u", "l", "l", "-", "o", "p", "e", "n", "j", "d",
            "k">>,
     <<"b", "e", "l", "l", "s", "o", "f", "t", "-", "l", "i", "b", "e", "r", "i", "c", "a",
             "-", "v", "m", "-", "o", "p", "e", "n", "j", "d", "k">>}

\* The ways (?P<java>.*?)-(?P<version>.*?)(-ea)?-(?P<os>.*?)- splits `body`:
\* <<end of java, end of version, -ea taken, end of os>>, each end the index
\* of the '-' after the group.
LibericaSplits(body) ==
    LET dash == IndexesOf(body, "-") IN
    {t \in dash \X dash \X BOOLEAN \X dash :
        /\ t[1] < t[2]
        /\ t[3] => MatchesAt(body, <<"-", "e", "a", "-">>, t[2])
        /\ t[4] > (IF t[3] THEN t[2] + 3 ELSE t[2])}

\* The order in which the regex engine tries the splits: lazy groups shortest
\* first, the optional (-ea) taken first.
TriedBefore(t, u) ==
    \/ t[1] < u[1]
    \/ t[1] = u[1] /\ t[2] < u[2]
    \/ t[1] = u[1] /\ t[2] = u[2] /\ t[3] /\ ~u[3]
    \/ t[1] = u[1] /\ t[2] = u[2] /\ t[3] = u[3] /\ t[4] < u[4]

\* (?<arch>.*?)-?(?:musl)? over the rest: the shortest arch, that is the rest
\* without the longest of the endings "-musl", "musl", "-", "".
LibericaArch(rest) ==
    CASE ends_with(rest, <<"-", "m", "u", "s", "l">>) -> SubSeq(rest, 1, Len(rest) - 5)
      [] ends_with(rest, <<"m", "u", "s", "l">>) -> SubSeq(rest, 1, Len(rest) - 4)
      [] ends_with(rest, <<"-">>) -> SubSeq(rest, 1, Len(rest) - 1)
      [] OTHER -> rest

\* meta_from_name (liberica-nik):
\* ^bellsoft-liberica-vm(?:-core|-full)?-openjdk(?P<java>.*?)-(?P<version>.*?)
\*  (-ea)?-(?P<os>.*?)-(?<arch>.*?)-?(?:musl)?.(?P<ext>apk|..|zip)$
liberica_meta_from_name(name) ==
    LET pres == {p \in LibericaPrefix : starts_with(name, p)} IN
    IF pres = {} THEN Err
    ELSE LET pre == CHOOSE p \in pres : TRUE
             tail == SubSeq(name, Len(pre) + 1, Len(name))
             exts == {e \in LibericaExt : ends_with(tail, e) /\ Len(tail) > Len(e)}
         IN IF exts = {} THEN Err
            ELSE LET ext == CHOOSE e \in exts : TRUE
                     \* the character before ext is the pattern's '.', any character
                     body == SubSeq(tail, 1, Len(tail) - Len(ext) - 1)
                     splits == LibericaSplits(body)
                 IN IF splits = {} THEN Err
                    ELSE LET t == CHOOSE t \in splits :
                                     \A u \in splits : u = t \/ TriedBefore(t, u)
                             d == IF t[3] THEN t[2] + 3 ELSE t[2]
                         IN Ok([arch |-> LibericaArch(SubSeq(body, t[4] + 1, Len(body))),
                                ext |-> ext,
                                java_version |-> SubSeq(body, 1, t[1] - 1),
                                os |-> SubSeq(body, d + 1, t[4] - 1),
                                version |-> SubSeq(body, t[1] + 1, t[2] - 1)])

\* normalize_features
normalize_features(release) ==
    IF contains(release.filename, <<"-", "m", "u", "s", "l">>) THEN Some(<<<<"m", "u", "s",
            "l">>>>) ELSE None

\* A u64 is held as four 16-bit words <<w3, w2, w1, w0>>, most significant
\* first (TLC's integers are 32 bits wide).
\* `release.size as i32`: the low 32 bits of the u64, read as two's complement
as_i32(n) ==
    IF n[3] >= 2 ^ 15 THEN (n[3] - 2 ^ 16) * 2 ^ 16 + n[4] ELSE n[3] * 2 ^ 16 + n[4]

\* map_release (liberica-nik)
liberica_map_release(release) ==
    LET filename_meta == liberica_meta_from_name(release.filename) IN
    IF ~filename_meta.ok THEN Err
    ELSE Ok([architecture |-> normalize_architecture(filename_meta.value.arch),
             checksum |-> Some(<<"s", "h", "a", "1", ":">> \o release.sha1),
             checksum_url |-> None,
             features |-> normalize_features(release),
             filename |-> release.filename,
             file_type |-> release.package_type,
             image_type |-> <<"j", "d", "k">>,
             java_version |-> normalize_version(filename_meta.value.java_version),
             jvm_impl |-> <<"g", "r", "a", "a", "l", "v", "m">>,
             os |-> normalize_os(release.os),
             release_type |-> IF release.ga THEN <<"g", "a">> ELSE <<"e", "a">>,
             size |-> Some(as_i32(release.size)),
             url |-> release.download_url,
             version |-> normalize_version(filename_meta.value.version),
             vendor |-> <<"l", "i", "b", "e", "r", "i", "c", "a", "-", "n", "i", "k">>])

\* ===================================================== Vendor::fetch_data
\* What the servers may answer. An HTML page is held as what the selectors
\* and text() read from it: its h3[id^='java'] headings and its anchors.
Href21 == <<"h", "t", "t", "p", "s", ":", "/", "/", "d", "o", "w", "n", "l", "o", "a", "d",
        ".", "o", "r", "a", "c", "l", "e", ".", "c", "o", "m", "/", "j", "a", "v", "a", "/",
        "2", "1", "/", "l", "a", "t", "e", "s", "t", "/", "j", "d", "k", "-", "2", "1", "_",
        "l", "i", "n", "u", "x", "-", "x", "6", "4", "_", "b", "i", "n", ".", "t", "a", "r",
        ".", "g", "z">>

Href17 == <<"h", "t", "t", "p", "s", ":", "/", "/", "d", "o", "w", "n", "l", "o", "a", "d",
        ".", "o", "r", "a", "c", "l", "e", ".", "c", "o", "m", "/", "j", "a", "v", "a", "/",
        "1", "7", "/", "a", "r", "c", "h", "i", "v", "e", "/", "j", "d", "k", "-", "1", "7",
        ".", "0", ".", "1", "2", "_", "m", "a", "c", "o", "s", "-", "a", "a", "r", "c", "h",
        "6", "4", "_", "b", "i", "n", ".", "d", "m", "g">>

HrefGraal == <<"h", "t", "t", "p", "s", ":", "/", "/", "d", "o", "w", "n", "l", "o", "a",
        "d", ".", "o", "r", "a", "c", "l", "e", ".", "c", "o", "m", "/", "g", "r", "a", "a",
        "l", "v", "m", "/", "2", "1", "/", "l", "a", "t", "e", "s", "t", "/", "g", "r", "a",
        "a", "l", "v", "m", "-", "j", "d", "k", "-", "2", "1", "_", "l", "i", "n", "u", "x",
        "-", "x", "6", "4", "_", "b", "i", "n", ".", "t", "a", "r", ".", "g", "z">>

Href8 == <<"h", "t", "t", "p", "s", ":", "/", "/", "d", "o", "w", "n", "l", "o", "a", "d",
        ".", "o", "r", "a", "c", "l", "e", ".", "c", "o", "m", "/", "o", "t", "n", "/", "j",
        "a", "v", "a", "/", "j", "d", "k", "/", "8", "u", "4", "5", "1", "/", "j", "d", "k",
        "-", "8", "u", "4", "5", "1", "-", "l", "i", "n", "u", "x", "-", "x", "6", "4", ".",
        "t", "a", "r", ".", "g", "z">>

HrefDoc == <<"h", "t", "t", "p", "s", ":", "/", "/", "d", "o", "c", "s", ".", "o", "r", "a",
        "c", "l", "e", ".", "c", "o", "m", "/", "e", "n", "/", "j", "a", "v", "a", "/", "j",
        "a", "v", "a", "s", "e", "/", "2", "1", "/", "i", "n", "s", "t", "a", "l", "l", ".",
        "h", "t", "m", "l">>

Anchor(href) == [name |-> href, href |-> href]

\* The downloads page: two current lines, a malformed name before the others
PageDownloads ==
    [h3 |-> <<<<"J", "D", "K", " ", "2", "4", ".", "0", ".", "1", " ", "d", "o", "w", "n",
            "l", "o", "a", "d", "s">>, <<"J", "D", "K", " ", "2", "1", ".", "0", ".", "7",
            " ", "d", "o", "w", "n", "l", "o", "a", "d", "s">>>>,
     anchors |-> <<Anchor(Href8), Anchor(Href21), Anchor(HrefGraal)>>]

\* An archive page: no headings, a malformed name after the others
PageArchive ==
    [h3 |-> <<>>,
     anchors |-> <<Anchor(Href17), Anchor(HrefDoc), Anchor(Href8)>>]

PagePool == {PageDownloads, PageArchive}

\* Html::parse_document("")
EmptyDocument == [h3 |-> <<>>, anchors |-> <<>>]

\* The answers to the request for a .sha256 file
ShaResponses == {Err, Ok(<<>>), Ok(<<"9", "f", "2", "c", " ", " ", "j", "d", "k", ".", "t",
        "a", "r", ".", "g", "z">>)}

Release(filename, os, ga, size) ==
    [architecture |-> <<"x">>, bundle_type |-> <<"c", "o", "r", "e">>,
            download_url |-> <<"h", "t", "t", "p", "s", ":", "/", "/", "d", "o", "w", "n",
            "l", "o", "a", "d", ".", "b", "e", "l", "l", "-", "s", "w", ".", "c", "o", "m",
            "/", "v", "m", "/">> \o filename,
     filename |-> filename, ga |-> ga, os |-> os, package_type |-> <<"x">>,
     sha1 |-> <<"1", "f">>, size |-> size, version |-> <<"x">>]

ReleasePool ==
    {Release(<<"b", "e", "l", "l", "s", "o", "f", "t", "-", "l", "i", "b", "e", "r", "i",
            "c", "a", "-", "v", "m", "-", "c", "o", "r", "e", "-", "o", "p", "e", "n", "j",
            "d", "k", "1", "1", "-", "2", "1", ".", "3", ".", "1", "-", "l", "i", "n", "u",
            "x", "-", "a", "a", "r", "c", "h", "6", "4", "-", "m", "u", "s", "l", ".", "t",
            "a", "r", ".", "g", "z">>,
             <<"l", "i", "n", "u", "x">>, TRUE, <<0, 0, 2000, 7>>),
     Release(<<"b", "e", "l", "l", "s", "o", "f", "t", "-", "l", "i", "b", "e", "r", "i",
             "c", "a", "-", "v", "m", "-", "c", "o", "r", "e", "-", "o", "p", "e", "n", "j",
             "d", "k", "1", "7", ".", "0", ".", "5", "+", "8", "-", "2", "2", ".", "3", ".",
             "0", "+", "1", "-", "e", "a", "-", "m", "a", "c", "o", "s", "-", "a", "m", "d",
             "6", "4", ".", "z", "i", "p">>,
             <<"m", "a", "c", "o", "s">>, FALSE, <<0, 0, 45776, 24064>>),
     Release(<<"b", "e", "l", "l", "s", "o", "f", "t", "-", "l", "i", "b", "e", "r", "i",
             "c", "a", "-", "v", "m", "-", "o", "p", "e", "n", "j", "d", "k", "1", "7", ".",
             "0", ".", "6", "+", "1", "0", "-", "2", "2", ".", "3", ".", "1", "+", "1", "-",
             "m", "a", "c", "o", "s", "-", "a", "a", "r", "c", "h", "6", "4", ".", "z", "i",
             "p">>,
             <<"m", "a", "c", "o", "s">>, TRUE, <<0, 0, 3000, 0>>),
     Release(<<"b", "e", "l", "l", "s", "o", "f", "t", "-", "l", "i", "b", "e", "r", "i",
             "c", "a", "-", "v", "m", "-", "c", "o", "r", "e", "-", "o", "p", "e", "n", "j",
             "d", "k", "1", "7", "-", "2", "3", ".", "0", ".", "0", "-", "s", "r", "c", ".",
             "t", "a", "r", ".", "g", "z">>,
             <<"l", "i", "n", "u", "x">>, TRUE, <<0, 0, 10, 0>>),
     Release(<<"b", "e", "l", "l", "s", "o", "f", "t", "-", "l", "i", "b", "e", "r", "i",
             "c", "a", "-", "v", "m", "-", "c", "o", "r", "e", "-", "o", "p", "e", "n", "j",
             "d", "k", "1", "7", "-", "2", "3", ".", "0", ".", "0", ".", "t", "a", "r", ".",
             "g", "z">>,
             <<"l", "i", "n", "u", "x">>, TRUE, <<0, 0, 2500, 1>>),
     \* the pattern matches with an empty arch group
     Release(<<"b", "e", "l", "l", "s", "o", "f", "t", "-", "l", "i", "b", "e", "r", "i",
             "c", "a", "-", "v", "m", "-", "c", "o", "r", "e", "-", "o", "p", "e", "n", "j",
             "d", "k", "2", "1", "-", "2", "3", ".", "1", ".", "0", "-", "l", "i", "n", "u",
             "x", "-", ".", "t", "a", "r", ".", "g", "z">>,
             <<"l", "i", "n", "u", "x">>, TRUE, <<0, 0, 2600, 2>>),
     \* a payload without os, and one without download URL
     Release(<<"b", "e", "l", "l", "s", "o", "f", "t", "-", "l", "i", "b", "e", "r", "i",
             "c", "a", "-", "v", "m", "-", "c", "o", "r", "e", "-", "o", "p", "e", "n", "j",
             "d", "k", "2", "1", "-", "2", "3", ".", "1", ".", "0", "-", "l", "i", "n", "u",
             "x", "-", "a", "m", "d", "6", "4", ".", "t", "a", "r", ".", "g", "z">>,
             <<>>, TRUE, <<0, 0, 2700, 3>>),
     [Release(<<"b", "e", "l", "l", "s", "o", "f", "t", "-", "l", "i", "b", "e", "r", "i",
             "c", "a", "-", "v", "m", "-", "c", "o", "r", "e", "-", "o", "p", "e", "n", "j",
             "d", "k", "2", "1", "-", "2", "3", ".", "1", ".", "0", "-", "l", "i", "n", "u",
             "x", "-", "a", "a", "r", "c", "h", "6", "4", ".", "t", "a", "r", ".", "g",
             "z">>,
              <<"l", "i", "n", "u", "x">>, TRUE, <<0, 0, 2800,
                      4>>) EXCEPT !.download_url = <<>>]}

\* The items fetch_data maps
Items == IF adapter = "oracle" THEN anchors ELSE releases

\* .filter(..): the items that reach map_release
oracle_filter(a) == ~contains(a.href, <<"g", "r", "a", "a", "l", "v", "m", "-">>)

liberica_filter(release) ==
    ~contains(release.filename, <<"-", "s", "r", "c">>) /\ contains(release.filename, <<"-",
            "c", "o", "r", "e", "-">>)

\* .flat_map(|item| match map_release(&item) { Ok(r) => vec![r], Err(e) => vec![] })
\* collected: what the item adds to the records collected so far
flat_map_item_or_reset(collected, mapped) ==
    IF mapped.ok THEN Append(collected, mapped.value) ELSE <<>>

flat_map_item(collected, mapped) ==
    IF mapped.ok THEN Append(collected, mapped.value) ELSE collected

\* One listing request of oracle: HTTP.get_text(&url), Html::parse_document,
\* extract_latest_versions, anchors_from_doc and replace_with_latest_version.
OracleGetText ==
    /\ adapter = "oracle" /\ apc = "list"
    /\ url <= Len(build_urls)
    /\ \E response \in {Err} \cup {Ok(EmptyDocument)}
                       \cup (IF pages < MaxPages THEN {Ok(p) : p \in PagePool} ELSE {}) :
          LET document == IF response.ok THEN response.value ELSE EmptyDocument
              found == anchors_from_doc(document)
          IN /\ \E listing \in Perms(extract_latest_versions(document)) :
                   anchors' = anchors \o
                       [i \in 1..Len(found) |-> replace_with_latest_version(found[i], listing)]
             /\ answered' = IF response.ok THEN answered + 1 ELSE answered
             /\ pages' = IF found # <<>> THEN pages + 1 ELSE pages
    /\ url' = url + 1
    /\ apc' = IF url = Len(build_urls) THEN "map" ELSE "list"
    /\ UNCHANGED <<adapter, releases, idx, data, origin, jvm_set, fres, warned>>
    /\ UNCHANGED <<fetchVars, aliasVars, exportVars, metaVars>>

\* One anchor of oracle: the graalvm- filter, then map_release
OracleMap ==
    /\ adapter = "oracle" /\ apc = "map"
    /\ idx <= Len(anchors)
    /\ LET a == anchors[idx] IN
       IF ~oracle_filter(a)
       THEN UNCHANGED <<data, origin, warned>>
       ELSE IF ~oracle_meta_from_name(split_last(a.name, "/")).ok
            THEN /\ data' = flat_map_item(data, oracle_map_release(a, Err))
                 /\ warned' = warned \cup {idx}
                 /\ UNCHANGED origin
            ELSE \E sha \in ShaResponses :
                    /\ data' = flat_map_item(data, oracle_map_release(a, sha))
                    /\ origin' = Append(origin, [item |-> idx, sha |-> sha])
                    /\ UNCHANGED warned
    /\ idx' = idx + 1
    /\ UNCHANGED <<adapter, apc, url, pages, answered, anchors, releases, jvm_set, fres>>
    /\ UNCHANGED <<fetchVars, aliasVars, exportVars, metaVars>>

\* HTTP.get_json::<Vec<Release>, _>(api_url)? : an error returns from fetch_data
LibericaGetJson ==
    /\ adapter = "liberica-nik" /\ apc = "list"
    /\ \/ /\ fres' = "Err"
          /\ apc' = "done"
          /\ UNCHANGED <<releases, answered>>
       \/ \E rs \in SeqsUpTo(ReleasePool, MaxReleases) :
             /\ releases' = rs
             /\ answered' = answered + 1
             /\ apc' = "map"
             /\ UNCHANGED fres
    /\ UNCHANGED <<adapter, url, pages, anchors, idx, data, origin, jvm_set, warned>>
    /\ UNCHANGED <<fetchVars, aliasVars, exportVars, metaVars>>

\* One release of liberica-nik: the -src and -core- filters, then map_release
LibericaMap ==
    /\ adapter = "liberica-nik" /\ apc = "map"
    /\ idx <= Len(releases)
    /\ LET release == releases[idx] IN
       IF ~liberica_filter(release)
       THEN UNCHANGED <<data, origin, warned>>
       ELSE /\ data' = flat_map_item(data, liberica_map_release(release))
            /\ IF liberica_map_release(release).ok
               THEN origin' = Append(origin, [item |-> idx, sha |-> Err]) /\ UNCHANGED warned
               ELSE warned' = warned \cup {idx} /\ UNCHANGED origin
    /\ idx' = idx + 1
    /\ UNCHANGED <<adapter, apc, url, pages, answered, anchors, releases, jvm_set, fres>>
    /\ UNCHANGED <<fetchVars, aliasVars, exportVars, metaVars>>

\* jvm_data.extend(data); Ok(())
Extend ==
    /\ apc = "map"
    /\ idx > Len(Items)
    /\ jvm_set' = jvm_set \cup Range(data)
    /\ fres' = "Ok"
    /\ apc' = "done"
    /\ UNCHANGED <<adapter, url, pages, answered, anchors, releases, idx, data, origin, warned>>
    /\ UNCHANGED <<fetchVars, aliasVars, exportVars, metaVars>>

AdapterInit ==
    /\ adapter \in {"oracle", "liberica-nik"}
    /\ apc = "list" /\ url = 1 /\ pages = 0 /\ answered = 0
    /\ anchors = <<>> /\ releases = <<>> /\ idx = 1 /\ data = <<>> /\ origin = <<>>
    /\ jvm_set = {} /\ fres = "none" /\ warned = {}

AdapterNext ==
    \/ OracleGetText
    \/ OracleMap
    \/ LibericaGetJson
    \/ LibericaMap
    \/ Extend

InitAdapter == AdapterInit /\ FetchIdle /\ AliasIdle /\ ExportIdle /\ MetaIdle

SpecAdapter == InitAdapter /\ [][AdapterNext]_vars

\* ------------------------------------------------- fetch_data: claims
Passes(i) ==
    IF adapter = "oracle" THEN oracle_filter(anchors[i]) ELSE liberica_filter(releases[i])

Parses(i) ==
    IF adapter = "oracle"
    THEN oracle_meta_from_name(split_last(anchors[i].name, "/")).ok
    ELSE liberica_meta_from_name(releases[i].filename).ok

\* The items that pass the filters and whose name parses
Good == {i \in 1..Len(Items) : Passes(i) /\ Parses(i)}

\* The record map_release makes of the item data[k] comes from
RecordOf(k) ==
    IF adapter = "oracle"
    THEN oracle_map_release(anchors[origin[k].item], origin[k].sha).value
    ELSE liberica_map_release(releases[origin[k].item]).value

\* C5: a fetch_data none of whose listing requests was answered has returned
\* an error (not Ok with an empty record set).
C5_UnreachableSourceFails ==
    (apc = "done" /\ answered = 0) => fres = "Err"

\* C6: a record of oracle whose .sha256 request failed has neither a checksum
\* nor a checksum_url.
C6_NoChecksumFieldsWithoutSha ==
    adapter = "oracle" =>
        /\ Len(origin) = Len(data)
        /\ \A k \in 1..Len(data) :
              ~origin[k].sha.ok =>
                  data[k].checksum = None /\ data[k].checksum_url = None

\* C7: the records collected are, in order, those of the items mapped so far
\* that pass the filters and parse, each as map_release makes it; once the
\* listing was answered fetch_data returns Ok and the set holds exactly these
\* records, wherever the items that do not parse stand.
C7_ParseFailuresAreSkipped ==
    /\ Len(origin) = Len(data)
    /\ apc \in {"map", "done"} =>
          /\ {origin[k].item : k \in 1..Len(origin)} = {i \in Good : i < idx}
          /\ \A k \in 1..Len(data) : data[k] = RecordOf(k)
          /\ \A j, k \in 1..Len(origin) : j < k => origin[j].item < origin[k].item
          /\ warned = {i \in 1..Len(Items) : i < idx /\ Passes(i) /\ ~Parses(i)}
    /\ (apc = "done" /\ answered > 0) =>
          fres = "Ok" /\ jvm_set = Range(data)

\* fetch_data has returned Ok with a non-empty set, an item that does not
\* parse stood before an item that does.
C7_Witness ==
    /\ apc = "done" /\ fres = "Ok" /\ jvm_set # {}
    /\ \E i, j \in 1..Len(Items) :
          i < j /\ Passes(i) /\ ~Parses(i) /\ j \in Good

\* ================================= oracle.rs: replace_with_latest_version
Href24 == <<"h", "t", "t", "p", "s", ":", "/", "/", "d", "o", "w", "n", "l", "o", "a", "d",
        ".", "o", "r", "a", "c", "l", "e", ".", "c", "o", "m", "/", "j", "a", "v", "a", "/",
        "2", "4", "/", "l", "a", "t", "e", "s", "t", "/", "j", "d", "k", "-", "2", "4", "_",
        "l", "i", "n", "u", "x", "-", "a", "a", "r", "c", "h", "6", "4", "_", "b", "i", "n",
        ".", "t", "a", "r", ".", "g", "z">>

AliasAnchors == {Anchor(Href21), Anchor(Href24), Anchor(Href17), Anchor(HrefGraal)}

VersionPool == {<<"2", "1", ".", "0", ".", "7">>, <<"2", "4", ".", "0", ".", "1">>, <<"1",
        "7", ".", "0", ".", "1", "2">>, <<"1", ".", "8", ".", "0">>}

\* The listings extract_latest_versions can return: no version twice
Listings ==
    {l \in SeqsUpTo(VersionPool, MaxVersions) :
        \A i, j \in 1..Len(l) : l[i] = l[j] => i = j}

Resolve ==
    /\ ~resolved.some
    /\ resolved' = Some(replace_with_latest_version(arg_anchor, arg_versions))
    /\ UNCHANGED <<arg_anchor, arg_versions>>
    /\ UNCHANGED <<fetchVars, adapterVars, exportVars, metaVars>>

AliasInit ==
    /\ arg_anchor \in AliasAnchors
    /\ arg_versions \in Listings
    /\ resolved = None

InitAlias == AliasInit /\ FetchIdle /\ AdapterIdle /\ ExportIdle /\ MetaIdle

SpecAlias == InitAlias /\ [][Resolve]_vars

\* The M of "jdk-M_" in a file name that starts with "jdk-", else ""
NameMajor(name) ==
    LET file == split_last(name, "/") IN
    IF starts_with(file, <<"j", "d", "k", "-">>) /\ contains(file, <<"_">>)
    THEN split_next(SubSeq(file, 5, Len(file)), "_")
    ELSE <<>>

\* C8: for an anchor under /latest/ whose name holds "jdk-M_": when the
\* listing holds a version of major M the name now holds "jdk-<version>_"
\* in its place, and when it holds none the name is unchanged.
C8_AliasResolved ==
    LET M == NameMajor(arg_anchor.name)
        ofM == {i \in 1..Len(arg_versions) : major(arg_versions[i]) = M}
    IN (resolved.some /\ contains(arg_anchor.href, <<"/", "l", "a", "t", "e", "s", "t",
            "/">>) /\ M # <<>>) =>
          IF ofM = {}
          THEN resolved.value.name = arg_anchor.name
          ELSE \E i \in ofM :
                  resolved.value.name =
                      replace(arg_anchor.name, Cat(<<<<"j", "d", "k", "-">>, M, <<"_">>>>),
                              Cat(<<<<"j", "d", "k", "-">>, arg_versions[i], <<"_">>>>))

\* ====================================================== export/vendor.rs
\* The export command works on whole values (names, paths): they are held as
\* strings here. The rows of the store, in the order its queries return them.
DbRows ==
    <<[vendor |-> "liberica-nik", os |-> "linux", architecture |-> "aarch64",
       filename |-> "nik-core.tar.gz", file_type |-> "tar.gz", features |-> {"musl"}],
      [vendor |-> "oracle", os |-> "linux", architecture |-> "x86_64",
       filename |-> "jdk-21.tar.gz", file_type |-> "tar.gz", features |-> {}],
      [vendor |-> "oracle", os |-> "macosx", architecture |-> "aarch64",
       filename |-> "jdk-17.dmg", file_type |-> "dmg", features |-> {}]>>

Fields == {"vendor", "os", "architecture", "filename", "file_type", "features"}

\* JvmRepository::get_distinct(field): the distinct values, in order
get_distinct(field) ==
    CASE field = "vendor" -> <<"liberica-nik", "oracle">>
      [] field = "os" -> <<"linux", "macosx">>
      [] field = "architecture" -> <<"aarch64", "x86_64">>

\* JvmRepository::export_vendor(vendor, os, arch): the rows of the partition
export_vendor(vendor, os, arch) ==
    SelectSeq(DbRows, LAMBDA r : r.vendor = vendor /\ r.os = os /\ r.architecture = arch)

\* get_filter_map: each filter "key=v1,v2" as key |-> {v1, v2}
get_filter_map(filters) ==
    [key \in {f[1] : f \in Range(filters)} |->
        UNION {f[2] : f \in {g \in Range(filters) : g[1] = key}}]

\* JvmData::filter: every filter key accepts the item's value (features: shares
\* a tag with it)
JvmData_filter(item, filters) ==
    \A key \in DOMAIN filters :
        IF key = "features" THEN item.features \cap filters[key] # {}
        ELSE item[key] \in filters[key]

\* JvmData::map: the fields of include when it is not empty, else all fields
\* but those of exclude
JvmData_map(item, include, exclude) ==
    LET keep == IF include # <<>> THEN Range(include) \cap Fields
                ELSE Fields \ Range(exclude)
    IN [f \in keep |-> item[f]]

unwrap_or(option, default) == IF option.some THEN option.value ELSE default

\* The values a user may list for a dimension, and the options given
Selections(field) ==
    {None} \cup {Some(l) : l \in SeqsUpTo(Range(get_distinct(field)), MaxSelected)}

\* The loop nest over vendors, oses and archs, as one index n = 1..Partitions
Partitions == Len(sel.vendors) * Len(sel.oses) * Len(sel.archs)

PartitionAt(n) ==
    LET per == Len(sel.oses) * Len(sel.archs) IN
    [vendor |-> sel.vendors[((n - 1) \div per) + 1],
     os |-> sel.oses[(((n - 1) % per) \div Len(sel.archs)) + 1],
     arch |-> sel.archs[((n - 1) % Len(sel.archs)) + 1]]

\* PathBuf::from(&export_path).join(vendor).join(os).join(format!("{arch}.json"))
PathOf(p) == <<conf_path.value, p.vendor, p.os, <<p.arch, ".json">>>>

\* data.into_par_iter().filter(..).map(..).collect()
export_data(p) ==
    LET rows == SelectSeq(export_vendor(p.vendor, p.os, p.arch),
                          LAMBDA item :
                              JvmData_filter(item, get_filter_map(unwrap_or(opts.filters, <<>>))))
    IN [i \in 1..Len(rows) |->
           JvmData_map(rows[i], unwrap_or(opts.include, <<>>), unwrap_or(opts.exclude, <<>>))]

\* The `?` after a failed store call: the error is returned.
StoreFailedIgnored ==
    /\ storeErrAt' = Len(written)
    /\ at' = at + 1
    /\ UNCHANGED <<xres, xpc>>

StoreFailed ==
    /\ storeErrAt' = Len(written)
    /\ xres' = "Err"
    /\ xpc' = "done"
    /\ UNCHANGED at

\* File::create(path) and serde_json::to_writer(file, &export_data): the
\* files after a partition's output is written
createdUnlessEmpty(path, content) ==
    IF content.array = <<>> THEN files ELSE (path :> content) @@ files

created(path, content) == (path :> content) @@ files

\* Conf::try_get()? and the check of conf.export.path
XConf ==
    /\ xpc = "conf"
    /\ \/ xres' = "Err" /\ xpc' = "done"
       \/ /\ conf_path.some
          /\ xpc' = "connect"
          /\ UNCHANGED xres
    /\ UNCHANGED <<opts, conf_path, sel, at, files, written, storeErrAt>>
    /\ UNCHANGED <<fetchVars, adapterVars, aliasVars, metaVars>>

\* ConnectionPool::get_pool()? and JvmRepository::new(conn_pool)?
XConnect ==
    /\ xpc = "connect"
    /\ \/ xres' = "Err" /\ xpc' = "done"
       \/ xpc' = "vendor" /\ UNCHANGED xres
    /\ UNCHANGED <<opts, conf_path, sel, at, files, written, storeErrAt>>
    /\ UNCHANGED <<fetchVars, adapterVars, aliasVars, metaVars>>

\* db.get_distinct(field)? and self.<dimension>.unwrap_or(default), for
\* "vendor", then "os", then "architecture"
XDistinct ==
    /\ xpc \in {"vendor", "os", "architecture"}
    /\ \/ StoreFailed /\ UNCHANGED sel
       \/ /\ sel' = CASE xpc = "vendor" ->
                           [sel EXCEPT !.vendors = unwrap_or(opts.vendors, get_distinct(xpc))]
                      [] xpc = "os" ->
                           [sel EXCEPT !.oses = unwrap_or(opts.os, get_distinct(xpc))]
                      [] xpc = "architecture" ->
                           [sel EXCEPT !.archs = unwrap_or(opts.arch, get_distinct(xpc))]
          /\ xpc' = CASE xpc = "vendor" -> "os"
                      [] xpc = "os" -> "architecture"
                      [] xpc = "architecture" -> "loop"
          /\ UNCHANGED <<xres, at, storeErrAt>>
    /\ UNCHANGED <<opts, conf_path, files, written>>
    /\ UNCHANGED <<fetchVars, adapterVars, aliasVars, metaVars>>

\* One pass of the loop body
XPartition ==
    /\ xpc = "loop"
    /\ at <= Partitions
    /\ LET p == PartitionAt(at)
           content == [pretty |-> opts.pretty, array |-> export_data(p)]
       IN \/ \* db.export_vendor(vendor, os, arch)? fails
             /\ StoreFailed
             /\ UNCHANGED <<files, written>>
          \/ \* create_dir_all(parent)? or File::create(path)? fails
             /\ xres' = "Err" /\ xpc' = "done"
             /\ UNCHANGED <<at, files, written, storeErrAt>>
          \/ \* the file is created and the writer fails
             /\ files' = (PathOf(p) :> [pretty |-> opts.pretty, array |-> "cut"]) @@ files
             /\ written' = Append(written, PathOf(p))
             /\ xres' = "Err" /\ xpc' = "done"
             /\ UNCHANGED <<at, storeErrAt>>
          \/ \* the partition is written
             /\ files' = created(PathOf(p), content)
             /\ written' = Append(written, PathOf(p))
             /\ at' = at + 1
             /\ UNCHANGED <<xres, xpc, storeErrAt>>
    /\ UNCHANGED <<opts, conf_path, sel>>
    /\ UNCHANGED <<fetchVars, adapterVars, aliasVars, metaVars>>

\* The loops are over: Ok(())
XReturn ==
    /\ xpc = "loop"
    /\ at > Partitions
    /\ xres' = "Ok"
    /\ xpc' = "done"
    /\ UNCHANGED <<opts, conf_path, sel, at, files, written, storeErrAt>>
    /\ UNCHANGED <<fetchVars, adapterVars, aliasVars, metaVars>>

ExportInit ==
    /\ opts \in [vendors : Selections("vendor"),
                 os : Selections("os"),
                 arch : Selections("architecture"),
                 include : {None, Some(<<"filename", "os">>)},
                 exclude : {None, Some(<<"os">>)},
                 filters : {None, Some(<<<<"features", {"musl", "lite"}>>>>)},
                 pretty : BOOLEAN]
    /\ conf_path \in {None, Some("/export")}
    /\ xpc = "conf"
    /\ xres = "none"
    /\ sel = [vendors |-> <<>>, oses |-> <<>>, archs |-> <<>>]
    /\ at = 1
    /\ files = <<>>
    /\ written = <<>>
    /\ storeErrAt = -1

ExportNext ==
    \/ XConf
    \/ XConnect
    \/ XDistinct
    \/ XPartition
    \/ XReturn

InitExport == ExportInit /\ FetchIdle /\ AdapterIdle /\ AliasIdle /\ MetaIdle

SpecExport == InitExport /\ [][ExportNext]_vars

\* ------------------------------------------------- export/vendor.rs: claims
\* The combinations of the effective selection
Combinations ==
    {[vendor |-> v, os |-> o, arch |-> a] :
        v \in Range(sel.vendors), o \in Range(sel.oses), a \in Range(sel.archs)}

\* C9: after Ok the files written are exactly one per combination of the
\* selection, at its path, each holding the partition's filtered and mapped
\* rows (an empty array when there are none), and no File::create went
\* anywhere else.
C9_OneFilePerCombination ==
    xres = "Ok" =>
        /\ DOMAIN files = {PathOf(p) : p \in Combinations}
        /\ \A p \in Combinations :
              files[PathOf(p)] = [pretty |-> opts.pretty, array |-> export_data(p)]
        /\ Range(written) = DOMAIN files

\* An export returned Ok having written a partition the store has no row
\* of, one whose rows were all filtered out, and one with rows.
C9_Witness ==
    /\ xres = "Ok"
    /\ \E p, q, r \in Combinations :
          /\ export_vendor(p.vendor, p.os, p.arch) = <<>>
          /\ files[PathOf(p)].array = <<>>
          /\ export_vendor(q.vendor, q.os, q.arch) # <<>>
          /\ files[PathOf(q)].array = <<>>
          /\ files[PathOf(r)].array # <<>>

\* C10: once a store call (get_distinct, export_vendor) has failed the
\* command has returned an error and File::create has not been called since.
C10_StoreErrorIsFatal ==
    storeErrAt >= 0 =>
        /\ xres = "Err" /\ xpc = "done"
        /\ Len(written) = storeErrAt

\* export_vendor failed after a partition had been written and with
\* partitions left to write.
C10_Witness ==
    /\ storeErrAt >= 1
    /\ xres = "Err"
    /\ at < Partitions

\* The values the claimed rule gives a dimension: every distinct value of the
\* store when the option is absent or lists nothing, else the listed values.
EmptyMeansAll(option, field) ==
    IF ~option.some \/ option.value = <<>> THEN get_distinct(field) ELSE option.value

\* C11: once the three dimensions are computed, each one iterates over all
\* distinct values of the store when its option is absent or given with an
\* empty list, and over exactly the listed values otherwise.
C11_EmptySelectionMeansAll ==
    xpc = "loop" =>
        /\ sel.vendors = EmptyMeansAll(opts.vendors, "vendor")
        /\ sel.oses = EmptyMeansAll(opts.os, "os")
        /\ sel.archs = EmptyMeansAll(opts.arch, "architecture")

\* ================================================ oracle.rs: meta_from_name
\* The file names given to meta_from_name: a prefix, a version, a platform
\* and an ending of each kind the listings and the tests show.
NamePrefixes == {<<"j", "d", "k", "-">>, <<"g", "r", "a", "a", "l", "v", "m", "-", "j", "d",
        "k", "-">>, <<"j", "r", "e", "-">>}

NameVersions == {<<"1", "7", ".", "0", ".", "7">>, <<"2", "1">>, <<"2", "1", ".", "0", ".",
        "4">>, <<"9">>, <<>>, <<"2", "1", "+", "3", "5">>, <<"1", "7", "u", "2">>}

NameOses == {<<"_", "l", "i", "n", "u", "x">>, <<"_", "m", "a", "c", "o", "s">>, <<"_", "w",
        "i", "n", "d", "o", "w", "s">>, <<"_", "u", "n", "k", "n", "o", "w", "n">>, <<"_",
        "s", "o", "l", "a", "r", "i", "s">>, <<>>}

NameArchs == {<<"-", "x", "6", "4">>, <<"-", "a", "a", "r", "c", "h", "6", "4">>, <<"-", "u",
        "n", "k", "n", "o", "w", "n">>, <<"-", "x", "8", "6">>, <<>>}

NameBins == {<<"_", "b", "i", "n">>, <<>>}

NameEndings == {<<".", "t", "a", "r", ".", "g", "z">>, <<".", "z", "i", "p">>, <<".", "d",
        "m", "g">>, <<".", "u", "n", "k", "n", "o", "w", "n">>, <<".", "t", "a", "r", ".",
        "g", "z", ".", "s", "h", "a", "2", "5", "6">>, <<>>}

NamePool ==
    {Cat(<<p, v, o, a, b, x>>) :
        p \in NamePrefixes, v \in NameVersions, o \in NameOses,
        a \in NameArchs, b \in NameBins, x \in NameEndings}

\* meta_from_name(name)
MetaFromName ==
    /\ ~meta.some
    /\ meta' = Some(oracle_meta_from_name(arg_name))
    /\ UNCHANGED arg_name
    /\ UNCHANGED <<fetchVars, adapterVars, aliasVars, exportVars>>

MetaInit == arg_name \in NamePool /\ meta = None

InitMeta == MetaInit /\ FetchIdle /\ AdapterIdle /\ AliasIdle /\ ExportIdle

SpecMeta == InitMeta /\ [][MetaFromName]_vars

\* The components <<version, os, arch, ext>> that make `name` a name of the
\* form jdk-<version>_<os>-<arch>_bin.<ext>, the version being of at least
\* `least` characters, all digits, '+' or '.'.
ConventionOf(name, least) ==
    {c \in {SubSeq(name, 5, e) : e \in 4..Len(name)} \X OracleOs \X OracleArch \X Extensions :
        /\ Len(c[1]) >= least
        /\ \A k \in 1..Len(c[1]) : c[1][k] \in Digits \cup {"+", "."}
        /\ name = Cat(<<<<"j", "d", "k", "-">>, c[1], <<"_">>, c[2], <<"-">>, c[3], <<"_",
                "b", "i", "n", ".">>, c[4]>>)}

\* What the call returned agrees with the convention read with versions of
\* at least `least` characters: Ok with the four components of the name
\* when it has the form, an error when it has not.
AgreesWithConvention(least) ==
    meta.some =>
        /\ meta.value.ok <=> ConventionOf(arg_name, least) # {}
        /\ meta.value.ok =>
              <<meta.value.value.version, meta.value.value.os,
                meta.value.value.arch, meta.value.value.ext>> \in ConventionOf(arg_name, least)

\* C12 as stated: meta_from_name returns Ok exactly for the names of the form
\* jdk-<version>_<os>-<arch>_bin.<ext> with any version made of digits, '+'
\* and '.', and then returns those four components; any other name is an
\* error.
C12_OkExactlyForConvention == AgreesWithConvention(1)

\* C12 amended: the same with a version of at least two characters.
C12_OkExactlyForConventionTwoChars == AgreesWithConvention(2)

\* meta_from_name was called with a name of the convention and returned its
\* components.
C12_Witness ==
    /\ meta.some /\ meta.value.ok
    /\ arg_name = <<"j", "d", "k", "-", "1", "7", ".", "0", ".", "7", "_", "l", "i", "n",
            "u", "x", "-", "a", "a", "r", "c", "h", "6", "4", "_", "b", "i", "n", ".", "t",
            "a", "r", ".", "g", "z">>
    /\ meta.value.value = [arch |-> <<"a", "a", "r", "c", "h", "6", "4">>, ext |-> <<"t",
            "a", "r", ".", "g", "z">>, os |-> <<"l", "i", "n", "u", "x">>,
                           version |-> <<"1", "7", ".", "0", ".", "7">>]

\* ================================================== map_release: required
\* The fields a record must hold a parsed value of
RequiredFields == {"architecture", "os", "version", "vendor", "filename", "url"}

\* C13: every record map_release produced, of liberica-nik and of oracle,
\* holds a non-empty architecture, os, version, vendor, filename and url; a
\* candidate lacking one of them is not among the records.
C13_RequiredFieldsParsed ==
    \A r \in Range(data) \cup jvm_set : \A f \in RequiredFields : r[f] # <<>>

\* ============================================ oracle.rs: listing order
\* C14: the name replace_with_latest_version left is the name it leaves for
\* every other ordering of the same set of listed versions.
C14_ListingOrderIrrelevant ==
    resolved.some =>
        \A other \in Perms(Range(arg_versions)) :
            replace_with_latest_version(arg_anchor, other).name = resolved.value.name

\* ============================================ liberica_nik.rs: size
\* The i32 `stored` is the u64 `size`: not negative and the same number.
SameSize(stored, size) ==
    /\ stored >= 0
    /\ size[1] = 0 /\ size[2] = 0
    /\ stored \div 2 ^ 16 = size[3]
    /\ stored % 2 ^ 16 = size[4]

\* C15: the size of every liberica-nik record is the byte size the API
\* reported for its release, and is not negative.
C15_SizeIsReportedSize ==
    adapter = "liberica-nik" =>
        \A k \in 1..Len(data) :
            /\ data[k].size.some
            /\ SameSize(data[k].size.value, releases[origin[k].item].size)

====
